---- MODULE Spec2Model ----
(***************************************************************************)
(* One run of the monz command line program (src/monz/command_line.py).    *)
(*                                                                         *)
(* The state is the position of the single Python thread, the values of    *)
(* the handlers' locals, and what the process has written to standard      *)
(* output and standard error.  The Monzo API client (pymonzo), click and   *)
(* babel are the environment: a call into the API client either raises one *)
(* of the two exception types the handlers name or returns records drawn   *)
(* from small pools.                                                       *)
(*                                                                         *)
(* Python values: None is the empty tuple <<>> and a present value v is    *)
(* the one-element tuple <<v>>.  Text that the program transforms is a     *)
(* sequence of one-character strings.                                      *)
(***************************************************************************)
EXTENDS Integers, Sequences, FiniteSets, TLC

VARIABLES
    pc,                  \* position of the thread
    ret,                 \* stack of positions to continue at when a handler returns
    argv,                \* the parsed command line
    obj,                 \* ctx.obj: TRUE once the API handle is constructed
    command,             \* the subcommand click resolved
    account_id,          \* parameter account_id of the running handler
    num,                 \* parameter num of transactions
    monzo_balance,       \* local of balance
    monzo_pots,          \* local of pots
    monzo_accounts,      \* local of accounts
    monzo_transactions,  \* local of transactions
    n,                   \* number of loop iterations completed
    raised,              \* the exception propagating, if any
    stdout,              \* lines written to standard output
    stderr,              \* lines written to standard error
    exit_code,           \* <<>> while running, <<code>> once the process exited
    fetches,             \* history: the calls made on the API handle
    pots_response,       \* history: the list ctx.obj.pots returned (line 50)
    available            \* history: the transactions the API held at the fetch

vars == <<pc, ret, argv, obj, command, account_id, num, monzo_balance,
          monzo_pots, monzo_accounts, monzo_transactions, n, raised, stdout,
          stderr, exit_code, fetches, pots_response, available>>

-----------------------------------------------------------------------------
(* Bounds *)

\* longest list a fetch returns
MaxLen == 3

\* largest value given to --num
MaxNum == 4

-----------------------------------------------------------------------------
(* Python values *)

None == <<>>

Some(v) == <<v>>

\* truth value of an optional string: None and '' are falsy
Truthy(v) == v # None /\ v[1] # ""

Min(a, b) == IF a < b THEN a ELSE b

Abs(a) == IF a < 0 THEN 0 - a ELSE a

\* sequences of at most k distinct elements of S
DistinctSeqs(S, k) ==
    UNION { { s \in [1..m -> S] : \A i, j \in 1..m : i # j => s[i] # s[j] }
            : m \in 0..k }

-----------------------------------------------------------------------------
(* str methods *)

LowerChars ==
    <<"a", "b", "c", "d", "e", "f", "g", "h", "i", "j", "k", "l", "m",
      "n", "o", "p", "q", "r", "s", "t", "u", "v", "w", "x", "y", "z">>

UpperChars ==
    <<"A", "B", "C", "D", "E", "F", "G", "H", "I", "J", "K", "L", "M",
      "N", "O", "P", "Q", "R", "S", "T", "U", "V", "W", "X", "Y", "Z">>

Upper(c) ==
    IF \E i \in 1..Len(LowerChars) : LowerChars[i] = c
    THEN UpperChars[CHOOSE i \in 1..Len(LowerChars) : LowerChars[i] = c]
    ELSE c

Lower(c) ==
    IF \E i \in 1..Len(UpperChars) : UpperChars[i] = c
    THEN LowerChars[CHOOSE i \in 1..Len(UpperChars) : UpperChars[i] = c]
    ELSE c

\* s.capitalize(): first character upper case, the rest lower case
Capitalize(s) ==
    [i \in 1..Len(s) |-> IF i = 1 THEN Upper(s[i]) ELSE Lower(s[i])]

\* s.split('  ')[0]: the text before the first two consecutive spaces
SplitFirst(s) ==
    LET at == { i \in 1..(Len(s) - 1) : s[i] = " " /\ s[i + 1] = " " }
    IN  IF at = {} THEN s
        ELSE SubSeq(s, 1, (CHOOSE i \in at : \A j \in at : i <= j) - 1)

\* s.replace('_', ' ')
ReplaceUnderscores(s) ==
    [i \in 1..Len(s) |-> IF s[i] = "_" THEN " " ELSE s[i]]

-----------------------------------------------------------------------------
(* Amounts *)

\* Decimal(i): coefficient and exponent
Decimal(i) == [coef |-> i, exp |-> 0]

\* monz.utils.monzo_amount_to_dec: the minor-unit integer divided by 100
monzo_amount_to_dec(amount) == [coef |-> amount, exp |-> 0 - 2]

\* babel's format_currency for a two-decimal currency: the parts of the
\* string it returns (symbol, sign, integer part, two fraction digits)
format_currency(number, currency) ==
    LET hundredths == IF number.exp = 0 THEN number.coef * 100 ELSE number.coef
    IN  [currency |-> currency,
         neg      |-> hundredths < 0,
         whole    |-> Abs(hundredths) \div 100,
         frac     |-> Abs(hundredths) % 100]

-----------------------------------------------------------------------------
(* Output lines *)

\* one call of click.echo / click.secho
Line(kind, fg, idx, text, money, when) ==
    [kind |-> kind, fg |-> fg, idx |-> idx, text |-> text,
     money |-> money, when |-> when]

\* click.echo(): an empty line
Blank == Line("blank", "", 0, <<>>, None, 0)

-----------------------------------------------------------------------------
(* Records the API client returns *)

Tesco == <<"T", "e", "s", "c", "o">>

\* a MonzoMerchant object
ResolvedMerchant ==
    [type |-> "MonzoMerchant", emoji |-> <<":)">>, name |-> Tesco,
     category |-> <<"e", "a", "t", "i", "n", "g", "_", "o", "u", "t">>]

\* transaction.merchant is None
NoMerchant ==
    [type |-> "NoneType", emoji |-> <<>>, name |-> <<>>, category |-> <<>>]

\* transaction.merchant is the merchant's id, a string
MerchantId ==
    [type |-> "str", emoji |-> <<>>, name |-> <<>>, category |-> <<>>]

TransactionPool ==
    { [id |-> "tx_1", merchant |-> ResolvedMerchant, description |-> Tesco,
       notes |-> None, local_amount |-> 0 - 12345, local_currency |-> "GBP",
       created |-> 1],
      [id |-> "tx_2", merchant |-> ResolvedMerchant, description |-> Tesco,
       notes |-> Some("lunch"), local_amount |-> 500, local_currency |-> "EUR",
       created |-> 2],
      [id |-> "tx_3", merchant |-> ResolvedMerchant, description |-> Tesco,
       notes |-> Some(""), local_amount |-> 0 - 5, local_currency |-> "GBP",
       created |-> 3],
      [id |-> "tx_4", merchant |-> NoMerchant,
       description |-> <<"T", "e", "s", "c", "o", " ", " ", "S", "t", "o",
                         "r", "e", " ", "1", "2", "3">>,
       notes |-> Some("x"), local_amount |-> 0 - 250, local_currency |-> "GBP",
       created |-> 4],
      [id |-> "tx_5", merchant |-> MerchantId,
       description |-> <<"t", "E", "S", "C", "O", " ", "x">>,
       notes |-> None, local_amount |-> 1, local_currency |-> "GBP",
       created |-> 5] }

PotPool ==
    { [id |-> "pot_1", name |-> <<"R", "e", "n", "t">>, balance |-> 12345,
       currency |-> "GBP", created |-> 1, deleted |-> FALSE],
      [id |-> "pot_2", name |-> <<"O", "l", "d">>, balance |-> 0,
       currency |-> "GBP", created |-> 2, deleted |-> TRUE],
      [id |-> "pot_3", name |-> <<"T", "r", "i", "p">>, balance |-> 0 - 5,
       currency |-> "EUR", created |-> 3, deleted |-> FALSE],
      [id |-> "pot_4", name |-> <<"C", "a", "r">>, balance |-> 99,
       currency |-> "GBP", created |-> 4, deleted |-> TRUE] }

AccountPool ==
    { [id |-> "acc_1", description |-> <<"M", "a", "i", "n">>, created |-> 1],
      [id |-> "acc_2", description |-> <<"J", "o", "i", "n", "t">>, created |-> 2],
      [id |-> "acc_3", description |-> <<"O", "l", "d">>, created |-> 3] }

BalancePool ==
    { [balance |-> 12345, spend_today |-> 0 - 250, currency |-> "GBP"],
      [balance |-> 0 - 5, spend_today |-> 0, currency |-> "EUR"],
      [balance |-> 100, spend_today |-> 7, currency |-> "GBP"] }

\* the failures the API client raises
ApiErrors ==
    { [kind |-> "ValueError", msg |-> "invalid argument"],
      [kind |-> "PyMonzoException", msg |-> "request failed"] }

\* ctx.obj.transactions(reverse=True, limit=limit) against an account holding
\* avail, most recent first: the limit most recent ones.  What the client
\* returns for a limit that is not positive is not fixed by this program.
TransactionsReturned(avail, limit) ==
    IF limit > 0
    THEN { SubSeq(avail, 1, Min(limit, Len(avail))) }
    ELSE { SubSeq(avail, 1, k) : k \in 0..Len(avail) }

\* an entry of the history of API calls
Fetch(op, account, limit, error) ==
    [op |-> op, account_id |-> account, limit |-> limit, error |-> error]

-----------------------------------------------------------------------------
(* Exceptions *)

ClickException(message) == [kind |-> "ClickException", msg |-> message]

AttributeError(type) ==
    [kind |-> "AttributeError", msg |-> type]

\* except (ValueError, PyMonzoException) as e: raise click.ClickException(str(e))
Reraise(e) ==
    IF e.kind \in {"ValueError", "PyMonzoException"}
    THEN ClickException(e.msg)
    ELSE e

\* the exception of MonzoAPI(...) left as it is
cli_except_raw(e) == e

\* what leaves cli when MonzoAPI(...) raises e
cli_except(e) == Reraise(e)

\* what leaves balance when ctx.obj.balance raises e
balance_except(e) == Reraise(e)

\* what leaves transactions when ctx.obj.transactions raises e
transactions_except(e) == Reraise(e)

\* what leaves pots when ctx.obj.pots raises e: the call is in no try block
pots_except(e) == e

\* what leaves accounts when ctx.obj.accounts raises e: no try block either
accounts_except(e) == e

-----------------------------------------------------------------------------
(* Rendering *)

\* if n != len(...): click.echo()
separator(i, length) == IF i # length THEN <<Blank>> ELSE <<>>

\* the two lines balance prints
balance_lines(b) ==
    << Line("balance", "green", 0, <<>>,
            Some(format_currency(monzo_amount_to_dec(b.balance), b.currency)), 0),
       Line("spent_today", "", 0, <<>>,
            Some(format_currency(monzo_amount_to_dec(b.spend_today), b.currency)), 0) >>

\* the pot's balance formatted without the conversion
pot_balance_raw(pot) == format_currency(Decimal(pot.balance), pot.currency)

\* pot_balance = format_currency(monzo_amount_to_dec(pot.balance), pot.currency)
pot_balance(pot) ==
    format_currency(monzo_amount_to_dec(pot.balance), pot.currency)

\* the lines pots prints for the i-th pot it displays
pot_lines(i, pot) ==
    << Line("pot_header", "green", i, pot.name, None, 0),
       Line("pot_balance", "", 0, <<>>, Some(pot_balance(pot)), 0),
       Line("pot_id", "", 0, <<pot.id>>, None, 0),
       Line("pot_created", "", 0, <<>>, None, pot.created) >>

\* the fetched pots, unfiltered
pots_filter_none(pots) == pots

\* monzo_pots = [pot for pot in monzo_pots if not pot.deleted]
pots_filter(pots) == SelectSeq(pots, LAMBDA pot : ~pot.deleted)

\* the lines accounts prints for the i-th account
account_lines(i, account) ==
    << Line("account_header", "green", i, account.description, None, 0),
       Line("account_id", "", 0, <<account.id>>, None, 0),
       Line("account_created", "", 0, <<>>, None, account.created) >>

\* description of a transaction, lines 145-151
description(transaction) ==
    IF transaction.merchant.type = "MonzoMerchant"
    THEN transaction.merchant.emoji \o <<" ">> \o transaction.merchant.name
    ELSE Capitalize(SplitFirst(transaction.description))

\* merchant.category exists only on a MonzoMerchant object, line 153
has_category(transaction) == transaction.merchant.type = "MonzoMerchant"

\* category = merchant.category.replace('_', ' ').capitalize()
category(transaction) ==
    Capitalize(ReplaceUnderscores(transaction.merchant.category))

\* local_amount of a transaction, lines 155-156
local_amount(transaction) ==
    format_currency(monzo_amount_to_dec(transaction.local_amount),
                    transaction.local_currency)

\* the Notes line printed whenever notes is not None
notes_lines_not_none(transaction) ==
    IF transaction.notes # None
    THEN << Line("tx_notes", "", 0, transaction.notes, None, 0) >>
    ELSE << >>

\* if transaction.notes: click.echo(... 'Notes:' ...)
notes_lines(transaction) ==
    IF Truthy(transaction.notes)
    THEN << Line("tx_notes", "", 0, transaction.notes, None, 0) >>
    ELSE << >>

\* the lines transactions prints for one transaction, lines 158-173
transaction_lines(transaction) ==
    << Line("tx_header", "yellow", 0, description(transaction),
            Some(local_amount(transaction)), 0),
       Line("tx_category", "", 0, category(transaction), None, 0) >>
    \o notes_lines(transaction)
    \o << Line("tx_date", "", 0, <<>>, None, transaction.created) >>

-----------------------------------------------------------------------------
(* The command line *)

\* default='info' of the command group
DefaultCommand == "info"

\* default=3 of --num
DefaultNum == 3

Subcommands == {"info", "balance", "accounts", "pots", "transactions"}

\* the command lines click accepts: --account-id and --num only where the
\* subcommand declares them
CommandLines ==
    { a \in [access_token : {None, Some("token")},
             subcommand   : {None} \cup {Some(c) : c \in Subcommands},
             account_id   : {None, Some("acc_1")},
             num          : {None} \cup {Some(i) : i \in (0 - 1)..MaxNum}] :
        /\ a.account_id # None =>
              a.subcommand \in {Some("balance"), Some("pots"), Some("transactions")}
        /\ a.num # None => a.subcommand = Some("transactions") }

\* where a returning handler continues: in its caller, or at the exit of cli()
ReturnTo == IF ret = <<>> THEN "exit" ELSE Head(ret)

Pop == IF ret = <<>> THEN ret ELSE Tail(ret)

Init ==
    /\ argv \in CommandLines
    /\ pc = "cli"
    /\ ret = <<>>
    /\ obj = FALSE
    /\ command = None
    /\ account_id = None
    /\ num = None
    /\ monzo_balance = None
    /\ monzo_pots = <<>>
    /\ monzo_accounts = <<>>
    /\ monzo_transactions = <<>>
    /\ n = 0
    /\ raised = None
    /\ stdout = <<>>
    /\ stderr = <<>>
    /\ exit_code = None
    /\ fetches = <<>>
    /\ pots_response = <<>>
    /\ available = <<>>

\* the group callback, lines 20-30
cli ==
    /\ pc = "cli"
    /\ \/ /\ obj' = TRUE
          /\ pc' = "dispatch"
          /\ UNCHANGED raised
       \/ \E e \in ApiErrors :
             /\ raised' = Some(cli_except(e))
             /\ pc' = "exit"
             /\ UNCHANGED obj
    /\ UNCHANGED <<ret, argv, command, account_id, num, monzo_balance,
                   monzo_pots, monzo_accounts, monzo_transactions, n, stdout,
                   stderr, exit_code, fetches, pots_response, available>>

\* the group invokes the subcommand named on the command line, or the
\* default one, with the options' values or their defaults
dispatch ==
    /\ pc = "dispatch"
    /\ command' = IF argv.subcommand = None
                  THEN Some(DefaultCommand) ELSE argv.subcommand
    /\ account_id' = argv.account_id
    /\ num' = IF argv.num = None THEN Some(DefaultNum) ELSE argv.num
    /\ pc' = command'[1]
    /\ UNCHANGED <<ret, argv, obj, monzo_balance, monzo_pots, monzo_accounts,
                   monzo_transactions, n, raised, stdout, stderr, exit_code,
                   fetches, pots_response, available>>

\* info, line 38: ctx.invoke(balance)
info_balance ==
    /\ pc = "info"
    /\ account_id' = None
    /\ ret' = <<"info_echo">> \o ret
    /\ pc' = "balance"
    /\ UNCHANGED <<argv, obj, command, num, monzo_balance, monzo_pots,
                   monzo_accounts, monzo_transactions, n, raised, stdout,
                   stderr, exit_code, fetches, pots_response, available>>

\* info, line 40: click.echo()
info_echo ==
    /\ pc = "info_echo"
    /\ stdout' = Append(stdout, Blank)
    /\ pc' = "info_transactions"
    /\ UNCHANGED <<ret, argv, obj, command, account_id, num, monzo_balance,
                   monzo_pots, monzo_accounts, monzo_transactions, n, raised,
                   stderr, exit_code, fetches, pots_response, available>>

\* info invoking transactions without num=1
info_transactions_default_num ==
    /\ pc = "info_transactions"
    /\ account_id' = None
    /\ pc' = "transactions"
    /\ UNCHANGED <<ret, argv, obj, command, num, monzo_balance, monzo_pots,
                   monzo_accounts, monzo_transactions, n, raised, stdout,
                   stderr, exit_code, fetches, pots_response, available>>

\* info, line 43: ctx.invoke(transactions, num=1), the last statement of info
info_transactions ==
    /\ pc = "info_transactions"
    /\ account_id' = None
    /\ num' = Some(1)
    /\ pc' = "transactions"
    /\ UNCHANGED <<ret, argv, obj, command, monzo_balance, monzo_pots,
                   monzo_accounts, monzo_transactions, n, raised, stdout,
                   stderr, exit_code, fetches, pots_response, available>>

\* balance printing nothing and returning when the fetch fails
balance_swallow ==
    /\ pc = "balance"
    /\ \/ \E b \in BalancePool :
             /\ fetches' = Append(fetches, Fetch("balance", account_id, None, None))
             /\ monzo_balance' = Some(b)
             /\ stdout' = stdout \o balance_lines(b)
       \/ \E e \in ApiErrors :
             /\ fetches' = Append(fetches, Fetch("balance", account_id, None, Some(e)))
             /\ UNCHANGED <<monzo_balance, stdout>>
    /\ pc' = ReturnTo
    /\ ret' = Pop
    /\ UNCHANGED <<argv, obj, command, account_id, num, monzo_pots,
                   monzo_accounts, monzo_transactions, n, raised, stderr,
                   exit_code, pots_response, available>>

\* balance, lines 105-125
balance ==
    /\ pc = "balance"
    /\ \/ \E b \in BalancePool :
             /\ fetches' = Append(fetches, Fetch("balance", account_id, None, None))
             /\ monzo_balance' = Some(b)
             /\ stdout' = stdout \o balance_lines(b)
             /\ pc' = ReturnTo
             /\ ret' = Pop
             /\ UNCHANGED raised
       \/ \E e \in ApiErrors :
             /\ fetches' = Append(fetches, Fetch("balance", account_id, None, Some(e)))
             /\ raised' = Some(balance_except(e))
             /\ pc' = "exit"
             /\ UNCHANGED <<monzo_balance, stdout, ret>>
    /\ UNCHANGED <<argv, obj, command, account_id, num, monzo_pots,
                   monzo_accounts, monzo_transactions, n, stderr, exit_code,
                   pots_response, available>>

\* pots, lines 50-52: the fetch and the filter
pots_fetch ==
    /\ pc = "pots"
    /\ \/ \E response \in DistinctSeqs(PotPool, MaxLen) :
             /\ fetches' = Append(fetches, Fetch("pots", account_id, None, None))
             /\ pots_response' = response
             /\ monzo_pots' = pots_filter(response)
             /\ n' = 0
             /\ pc' = "pots_loop"
             /\ UNCHANGED raised
       \/ \E e \in ApiErrors :
             /\ fetches' = Append(fetches, Fetch("pots", account_id, None, Some(e)))
             /\ raised' = Some(pots_except(e))
             /\ pc' = "exit"
             /\ UNCHANGED <<pots_response, monzo_pots, n>>
    /\ UNCHANGED <<ret, argv, obj, command, account_id, num, monzo_balance,
                   monzo_accounts, monzo_transactions, stdout, stderr,
                   exit_code, available>>

\* pots, lines 54-76: one iteration of the loop, or its end
pots_loop ==
    /\ pc = "pots_loop"
    /\ IF n = Len(monzo_pots)
       THEN /\ pc' = ReturnTo
            /\ ret' = Pop
            /\ UNCHANGED <<n, stdout>>
       ELSE /\ stdout' = stdout \o pot_lines(n + 1, monzo_pots[n + 1])
                                \o separator(n + 1, Len(monzo_pots))
            /\ n' = n + 1
            /\ UNCHANGED <<pc, ret>>
    /\ UNCHANGED <<argv, obj, command, account_id, num, monzo_balance,
                   monzo_pots, monzo_accounts, monzo_transactions, raised,
                   stderr, exit_code, fetches, pots_response, available>>

\* accounts, line 82: the fetch
accounts_fetch ==
    /\ pc = "accounts"
    /\ \/ \E response \in DistinctSeqs(AccountPool, MaxLen) :
             /\ fetches' = Append(fetches, Fetch("accounts", None, None, None))
             /\ monzo_accounts' = response
             /\ n' = 0
             /\ pc' = "accounts_loop"
             /\ UNCHANGED raised
       \/ \E e \in ApiErrors :
             /\ fetches' = Append(fetches, Fetch("accounts", None, None, Some(e)))
             /\ raised' = Some(accounts_except(e))
             /\ pc' = "exit"
             /\ UNCHANGED <<monzo_accounts, n>>
    /\ UNCHANGED <<ret, argv, obj, command, account_id, num, monzo_balance,
                   monzo_pots, monzo_transactions, stdout, stderr, exit_code,
                   pots_response, available>>

\* accounts, lines 84-99: one iteration of the loop, or its end
accounts_loop ==
    /\ pc = "accounts_loop"
    /\ IF n = Len(monzo_accounts)
       THEN /\ pc' = ReturnTo
            /\ ret' = Pop
            /\ UNCHANGED <<n, stdout>>
       ELSE /\ stdout' = stdout \o account_lines(n + 1, monzo_accounts[n + 1])
                                \o separator(n + 1, Len(monzo_accounts))
            /\ n' = n + 1
            /\ UNCHANGED <<pc, ret>>
    /\ UNCHANGED <<argv, obj, command, account_id, num, monzo_balance,
                   monzo_pots, monzo_accounts, monzo_transactions, raised,
                   stderr, exit_code, fetches, pots_response, available>>

\* transactions, lines 135-142: the fetch
transactions_fetch ==
    /\ pc = "transactions"
    /\ \/ \E avail \in DistinctSeqs(TransactionPool, MaxLen) :
          \E response \in TransactionsReturned(avail, num[1]) :
             /\ fetches' = Append(fetches, Fetch("transactions", account_id, num, None))
             /\ available' = avail
             /\ monzo_transactions' = response
             /\ n' = 0
             /\ pc' = "transactions_loop"
             /\ UNCHANGED raised
       \/ \E e \in ApiErrors :
             /\ fetches' = Append(fetches, Fetch("transactions", account_id, num, Some(e)))
             /\ raised' = Some(transactions_except(e))
             /\ pc' = "exit"
             /\ UNCHANGED <<available, monzo_transactions, n>>
    /\ UNCHANGED <<ret, argv, obj, command, account_id, num, monzo_balance,
                   monzo_pots, monzo_accounts, stdout, stderr, exit_code,
                   pots_response>>

\* transactions, lines 144-176: one iteration of the loop, or its end.  The
\* iteration raises AttributeError at line 153, before it prints anything,
\* when the merchant has no attribute category.
transactions_loop ==
    /\ pc = "transactions_loop"
    /\ IF n = Len(monzo_transactions)
       THEN /\ pc' = ReturnTo
            /\ ret' = Pop
            /\ UNCHANGED <<n, stdout, raised>>
       ELSE LET transaction == monzo_transactions[n + 1]
            IN  IF has_category(transaction)
                THEN /\ stdout' = stdout \o transaction_lines(transaction)
                                         \o separator(n + 1, Len(monzo_transactions))
                     /\ n' = n + 1
                     /\ UNCHANGED <<pc, ret, raised>>
                ELSE /\ raised' = Some(AttributeError(transaction.merchant.type))
                     /\ pc' = "exit"
                     /\ UNCHANGED <<n, stdout, ret>>
    /\ UNCHANGED <<argv, obj, command, account_id, num, monzo_balance,
                   monzo_pots, monzo_accounts, monzo_transactions, stderr,
                   exit_code, fetches, pots_response, available>>

\* cli() as the program's entry point, line 180: click reports a
\* ClickException as "Error: <message>" and exits with 1; any other
\* exception ends the interpreter with a traceback and status 1
exit ==
    /\ pc = "exit"
    /\ IF raised = None
       THEN /\ exit_code' = Some(0)
            /\ UNCHANGED stderr
       ELSE /\ exit_code' = Some(1)
            /\ stderr' = Append(stderr,
                  [kind |-> IF raised[1].kind = "ClickException"
                            THEN "Error" ELSE "Traceback",
                   exc  |-> raised[1].kind,
                   msg  |-> raised[1].msg])
    /\ pc' = "done"
    /\ UNCHANGED <<ret, argv, obj, command, account_id, num, monzo_balance,
                   monzo_pots, monzo_accounts, monzo_transactions, n, raised,
                   stdout, fetches, pots_response, available>>

Next ==
    \/ cli
    \/ dispatch
    \/ info_balance
    \/ info_echo
    \/ info_transactions
    \/ balance
    \/ pots_fetch
    \/ pots_loop
    \/ accounts_fetch
    \/ accounts_loop
    \/ transactions_fetch
    \/ transactions_loop
    \/ exit

Spec == Init /\ [][Next]_vars

-----------------------------------------------------------------------------
(* Reading the output *)

\* number of lines of a kind on standard output
Count(kind) == Cardinality({ i \in DOMAIN stdout : stdout[i].kind = kind })

\* position on standard output of the k-th line of a kind
KindPos(kind, k) ==
    CHOOSE i \in DOMAIN stdout :
        /\ stdout[i].kind = kind
        /\ Cardinality({ j \in 1..i : stdout[j].kind = kind }) = k

\* the amount a formatted currency string shows, in hundredths
Shown(money) ==
    (IF money.neg THEN 0 - 1 ELSE 1) * (money.whole * 100 + money.frac)

\* a call on the API handle failed
FetchFailed(op) ==
    \E i \in DOMAIN fetches : fetches[i].op = op /\ fetches[i].error # None

NoFetchFailed == \A i \in DOMAIN fetches : fetches[i].error = None

\* the run is one of info, named or by default
RunsInfo == argv.subcommand \in {None, Some("info")}

\* the first line of each kind of entry
HeaderKinds == {"pot_header", "account_header", "tx_header"}

Headers == { i \in DOMAIN stdout : stdout[i].kind \in HeaderKinds }

-----------------------------------------------------------------------------
(* C1 *)

\* C1: every failed fetch, in whichever command, leaves the command as a
\* ClickException carrying the failure's message, and the process then exits
\* with a non-zero status and "Error: <message>" on standard error.
C1_FetchFailureConverted ==
    \A i \in DOMAIN fetches :
        fetches[i].error # None =>
            /\ raised = Some(ClickException(fetches[i].error[1].msg))
            /\ pc = "done" =>
                  /\ exit_code = Some(1)
                  /\ stderr = << [kind |-> "Error", exc |-> "ClickException",
                                  msg |-> fetches[i].error[1].msg] >>

-----------------------------------------------------------------------------
(* C2 *)

\* C2: when transactions has run to its end on a fetched list, every fetched
\* transaction whose merchant is not a MonzoMerchant object has its block on
\* standard output, headed by its raw description cut at the first double
\* space and capitalized, and the exit status is 0.
C2_UnresolvedMerchantRendered ==
    (pc = "done" /\ command = Some("transactions") /\ obj /\ NoFetchFailed) =>
        /\ exit_code = Some(0)
        /\ Count("tx_header") = Len(monzo_transactions)
        /\ \A k \in DOMAIN monzo_transactions :
              monzo_transactions[k].merchant.type # "MonzoMerchant" =>
                  stdout[KindPos("tx_header", k)].text =
                      Capitalize(SplitFirst(monzo_transactions[k].description))

-----------------------------------------------------------------------------
(* C3 *)

\* C3: the ids on the "ID:" lines of pots are, at every moment, the first
\* ones of the non-deleted pots of the fetched list in the order fetched, no
\* id of a deleted pot is among them, and once pots has returned they are
\* all of them, each once, the i-th under the header numbered i.
C3_DeletedPotsFiltered ==
    LET kept     == SelectSeq(pots_response, LAMBDA p : p.deleted = FALSE)
        rendered == [k \in 1..Count("pot_id") |->
                        stdout[KindPos("pot_id", k)].text[1]]
    IN  /\ Len(rendered) <= Len(kept)
        /\ \A k \in DOMAIN rendered : rendered[k] = kept[k].id
        /\ \A k \in DOMAIN rendered :
              \A j \in DOMAIN pots_response :
                  pots_response[j].deleted => pots_response[j].id # rendered[k]
        /\ Count("pot_header") = Len(rendered)
        /\ \A k \in DOMAIN rendered :
              /\ stdout[KindPos("pot_header", k)].idx = k
              /\ stdout[KindPos("pot_header", k)].text = kept[k].name
        /\ (pc = "done" /\ command = Some("pots") /\ raised = None) =>
              Len(rendered) = Len(kept)

\* pots has printed two pots of a fetched list that also held deleted ones,
\* one of them ahead of a pot that is shown
C3_Witness ==
    /\ pc = "done"
    /\ command = Some("pots")
    /\ Len(pots_response) = 3
    /\ pots_response[1].deleted
    /\ Count("pot_id") = 2

-----------------------------------------------------------------------------
(* C4 *)

\* C4: once a list command has ended, standard output holds count - 1 empty
\* lines for count entries shown (none for count <= 1), every empty line has
\* an entry's lines before it and an entry's header right after it, and the
\* last line is not empty.
C4_SeparatorCount ==
    (pc = "done" /\ command \in {Some("accounts"), Some("pots"), Some("transactions")}) =>
        LET count == Cardinality(Headers)
        IN  /\ Count("blank") = IF count <= 1 THEN 0 ELSE count - 1
            /\ \A i \in DOMAIN stdout :
                  stdout[i].kind = "blank" =>
                      /\ i > 1
                      /\ i < Len(stdout)
                      /\ stdout[i + 1].kind \in HeaderKinds

-----------------------------------------------------------------------------
(* C5 *)

\* C5: when info (named or as the default command) has ended with a handle
\* and without a failed fetch, it asked for the balance with no account and
\* then for the transactions with limit 1 and no account; standard output is
\* the two balance lines, one empty line, and after it only lines of the
\* transaction; with no transaction available the output ends after the
\* empty line and the exit status is 0; the one transaction with a resolved
\* merchant is shown after the empty line.
C5_InfoOrder ==
    (pc = "done" /\ RunsInfo /\ obj /\ NoFetchFailed) =>
        /\ command = Some("info")
        /\ fetches = << Fetch("balance", None, None, None),
                        Fetch("transactions", None, Some(1), None) >>
        /\ Len(stdout) >= 3
        /\ stdout[1].kind = "balance"
        /\ stdout[2].kind = "spent_today"
        /\ stdout[3] = Blank
        /\ \A i \in 4..Len(stdout) :
              stdout[i].kind \in {"tx_header", "tx_category", "tx_notes", "tx_date"}
        /\ available = <<>> => (Len(stdout) = 3 /\ exit_code = Some(0))
        /\ (available # <<>> /\ available[1].merchant.type = "MonzoMerchant") =>
              /\ Len(stdout) > 3
              /\ stdout[4].kind = "tx_header"
              /\ Count("tx_header") = 1
              /\ exit_code = Some(0)

\* info ran as the default command with no transaction available
C5_Witness ==
    /\ pc = "done"
    /\ argv.subcommand = None
    /\ obj
    /\ NoFetchFailed
    /\ available = <<>>
    /\ Len(stdout) = 3
    /\ exit_code = Some(0)

-----------------------------------------------------------------------------
(* C6 *)

\* C6: in a run of info, after a failed balance fetch standard output is
\* empty and the balance fetch is the only call made; after a failed
\* transactions fetch standard output is the balance lines and the empty
\* line, and the calls made are the balance fetch and that one; either way
\* the run goes straight to its exit, with a non-zero status.
C6_InfoAbortsOnFailure ==
    RunsInfo =>
        /\ FetchFailed("balance") =>
              /\ stdout = <<>>
              /\ Len(fetches) = 1
              /\ pc \in {"exit", "done"}
              /\ pc = "done" => exit_code = Some(1)
        /\ FetchFailed("transactions") =>
              /\ Len(stdout) = 3
              /\ stdout[1].kind = "balance"
              /\ stdout[2].kind = "spent_today"
              /\ stdout[3] = Blank
              /\ Len(fetches) = 2
              /\ fetches[1] = Fetch("balance", None, None, None)
              /\ pc \in {"exit", "done"}
              /\ pc = "done" => exit_code = Some(1)

\* info has exited after its transactions fetch failed
C6_Witness ==
    /\ pc = "done"
    /\ RunsInfo
    /\ FetchFailed("transactions")
    /\ Len(stdout) = 3
    /\ exit_code = Some(1)

-----------------------------------------------------------------------------
(* C7 *)

\* C7: when MonzoAPI(...) raised, no subcommand is resolved or entered, no
\* call is made on the API, standard output stays empty, the exception
\* leaving cli is a ClickException with the credential failure's message,
\* and the process exits with status 1 and "Error: <message>".
C7_CredentialFailure ==
    (pc # "cli" /\ ~obj) =>
        /\ pc \in {"exit", "done"}
        /\ command = None
        /\ fetches = <<>>
        /\ stdout = <<>>
        /\ \E e \in ApiErrors : raised = Some(ClickException(e.msg))
        /\ pc = "done" =>
              /\ exit_code = Some(1)
              /\ stderr = << [kind |-> "Error", exc |-> "ClickException",
                              msg |-> raised[1].msg] >>

\* the handle could not be built in a run with no subcommand named
C7_Witness ==
    /\ pc = "done"
    /\ ~obj
    /\ argv.subcommand = None
    /\ exit_code = Some(1)

-----------------------------------------------------------------------------
(* C8 *)

\* C8: when transactions has ended without a failed fetch, it made one call,
\* with limit N (3 when --num was omitted), and standard output holds
\* min(N, available) transaction blocks.
C8_RendersMinNumAvailable ==
    (pc = "done" /\ argv.subcommand = Some("transactions") /\ obj /\ NoFetchFailed) =>
        LET N == IF argv.num = None THEN 3 ELSE argv.num[1]
        IN  /\ fetches = << Fetch("transactions", argv.account_id, Some(N), None) >>
            /\ Count("tx_header") = Min(N, Len(available))

-----------------------------------------------------------------------------
(* C9 *)

\* C9: the k-th transaction block on standard output has the category line
\* right after its header; when the transaction's notes are a non-empty
\* string the Notes line with them comes next and the date line after it;
\* otherwise the date line comes right after the category line; and there
\* are no other Notes lines.
C9_NotesLine ==
    /\ Count("tx_header") <= Len(monzo_transactions)
    /\ \A k \in 1..Count("tx_header") :
          LET i == KindPos("tx_header", k)
              notes == monzo_transactions[k].notes
          IN  /\ Len(stdout) >= i + 2
              /\ stdout[i + 1].kind = "tx_category"
              /\ IF notes # None /\ notes # Some("")
                 THEN /\ Len(stdout) >= i + 3
                      /\ stdout[i + 2].kind = "tx_notes"
                      /\ stdout[i + 2].text = notes
                      /\ stdout[i + 3].kind = "tx_date"
                 ELSE stdout[i + 2].kind = "tx_date"
    /\ Count("tx_notes") =
          Cardinality({ k \in 1..Count("tx_header") :
                          /\ monzo_transactions[k].notes # None
                          /\ monzo_transactions[k].notes # Some("") })

\* transactions printed a block with notes, one whose notes are the empty
\* string and one without notes
C9_Witness ==
    /\ pc = "done"
    /\ Count("tx_header") = 3
    /\ Count("tx_notes") = 1
    /\ \E k \in 1..3 : monzo_transactions[k].notes = Some("")
    /\ \E k \in 1..3 : monzo_transactions[k].notes = None

-----------------------------------------------------------------------------
(* C10 *)

\* C10: every amount on standard output shows the fetched minor-unit integer
\* divided by 100, to the hundredth, in the fetched currency: the balance and
\* spent-today lines, the balance line of the k-th pot shown, and the header
\* of the k-th transaction shown; every entry shown has its amount.
C10_AmountsDividedBy100 ==
    /\ \A i \in DOMAIN stdout :
          /\ stdout[i].kind = "balance" =>
                /\ monzo_balance # None
                /\ Shown(stdout[i].money[1]) = monzo_balance[1].balance
                /\ stdout[i].money[1].currency = monzo_balance[1].currency
          /\ stdout[i].kind = "spent_today" =>
                /\ monzo_balance # None
                /\ Shown(stdout[i].money[1]) = monzo_balance[1].spend_today
                /\ stdout[i].money[1].currency = monzo_balance[1].currency
          /\ stdout[i].money # None => stdout[i].money[1].frac \in 0..99
    /\ Count("pot_balance") = Count("pot_header")
    /\ Count("pot_balance") <= Len(monzo_pots)
    /\ \A k \in 1..Count("pot_balance") :
          LET money == stdout[KindPos("pot_balance", k)].money[1]
          IN  /\ Shown(money) = monzo_pots[k].balance
              /\ money.currency = monzo_pots[k].currency
    /\ Count("tx_header") <= Len(monzo_transactions)
    /\ \A k \in 1..Count("tx_header") :
          LET money == stdout[KindPos("tx_header", k)].money[1]
          IN  /\ Shown(money) = monzo_transactions[k].local_amount
              /\ money.currency = monzo_transactions[k].local_currency

\* a fetched 12345 pence is on standard output as 123.45 pounds, for a pot
C10_Witness ==
    /\ pc = "done"
    /\ \E i \in DOMAIN stdout :
          /\ stdout[i].kind = "pot_balance"
          /\ stdout[i].money =
                Some([currency |-> "GBP", neg |-> FALSE, whole |-> 123, frac |-> 45])
    /\ \E k \in DOMAIN monzo_pots : monzo_pots[k].balance = 12345

====
